---- MODULE Spec2Model ----
(***************************************************************************)
(* Model of main.py, the email header anonymizer.  Text is modelled at the *)
(* character level: a string is a sequence of one-character strings, so    *)
(* that line splitting, prefix tests, newline translation and the two      *)
(* regular-expression substitutions are computed as the code computes      *)
(* them.  Input files are ASCII, for which decoding and encoding with the  *)
(* detected codec map characters one to one; a failure of detection,       *)
(* decoding or of the file system is an outcome an action may take.  The   *)
(* platform is POSIX (os.linesep is \n).                                   *)
(***************************************************************************)
EXTENDS Integers, Sequences, FiniteSets, TLC

(* ------------------------------------------------------------------ *)
(* Bound of the model.                                                 *)
(* ------------------------------------------------------------------ *)

\* Largest number of physical header lines of an input message.
MaxHeaders == 2

(* ------------------------------------------------------------------ *)
(* Characters.                                                         *)
(* ------------------------------------------------------------------ *)

LF == "\n"
CR == "\r"
FF == "\f"
SP == " "

UpperCase ==
    <<"A", "B", "C", "D", "E", "F", "G", "H", "I", "J", "K", "L", "M", "N", "O", "P", "Q", "R", "S", "T", "U", "V", "W", "X", "Y", "Z">>
LowerCase ==
    <<"a", "b", "c", "d", "e", "f", "g", "h", "i", "j", "k", "l", "m", "n", "o", "p", "q", "r", "s", "t", "u", "v", "w", "x", "y", "z">>
Digits ==
    {"0", "1", "2", "3", "4", "5", "6", "7", "8", "9"}

Letters == {UpperCase[i] : i \in 1..26} \cup {LowerCase[i] : i \in 1..26}

\* \w of the re module, for the \b assertions of ip_address_pattern.
WordChars == Letters \cup Digits \cup {"_"}

\* The class [a-zA-Z0-9.-] of hostname_pattern.
HostChars == Letters \cup Digits \cup {".", "-"}

\* The line boundaries of str.splitlines that a string of this model can
\* hold: \n, \r (and \r\n as one boundary), \f.
LineBoundaries == {LF, CR, FF}

(* ------------------------------------------------------------------ *)
(* str methods.                                                        *)
(* ------------------------------------------------------------------ *)

\* The lower-case letter of every upper-case letter.
ToLower ==
    [c \in {UpperCase[i] : i \in 1..26} |->
        LowerCase[CHOOSE i \in 1..26 : UpperCase[i] = c]]

\* c.lower() of one character.
LowerChar(c) == IF c \in DOMAIN ToLower THEN ToLower[c] ELSE c

\* s.lower()
lower(s) == [i \in 1..Len(s) |-> LowerChar(s[i])]

\* s.startswith(prefix)
startswith(s, prefix) ==
    /\ Len(s) >= Len(prefix)
    /\ SubSeq(s, 1, Len(prefix)) = prefix

RECURSIVE find_from(_, _, _)
\* The first position from i on at which sub occurs in s, 0 when there is
\* none.
find_from(s, sub, i) ==
    IF i + Len(sub) - 1 > Len(s) THEN 0
    ELSE IF SubSeq(s, i, i + Len(sub) - 1) = sub THEN i
    ELSE find_from(s, sub, i + 1)

\* s.find(sub) + 1: the first position of sub in s, 0 when there is none.
find(s, sub) == find_from(s, sub, 1)

\* sub in s
contains(s, sub) == find(s, sub) # 0

\* s.split(sep, 1) for a separator that occurs in s: <<head, tail>>.
split_once(s, sep) ==
    LET i == find(s, sep)
    IN  <<SubSeq(s, 1, i - 1), SubSeq(s, i + Len(sep), Len(s))>>

RECURSIVE splitlines_from(_, _, _)
\* The lines of s from position i on, cur being the line read so far.  A
\* line ends at a boundary (\r\n counting as one); what follows the last
\* boundary is a line only when it is not empty.
splitlines_from(s, i, cur) ==
    IF i > Len(s) THEN (IF cur = <<>> THEN <<>> ELSE <<cur>>)
    ELSE IF s[i] = CR /\ i < Len(s) /\ s[i + 1] = LF
         THEN <<cur>> \o splitlines_from(s, i + 2, <<>>)
    ELSE IF s[i] \in LineBoundaries
         THEN <<cur>> \o splitlines_from(s, i + 1, <<>>)
    ELSE splitlines_from(s, i + 1, Append(cur, s[i]))

\* s.splitlines()
splitlines(s) == splitlines_from(s, 1, <<>>)

RECURSIVE join(_, _)
\* sep.join(lines)
join(sep, lines) ==
    IF lines = <<>> THEN <<>>
    ELSE IF Len(lines) = 1 THEN lines[1]
    ELSE lines[1] \o sep \o join(sep, Tail(lines))

(* ------------------------------------------------------------------ *)
(* Text-mode file objects (newline=None).                              *)
(* ------------------------------------------------------------------ *)

RECURSIVE read_text_from(_, _)
\* What f.read() returns for a file opened with open(path, 'r'): universal
\* newlines, every \r\n and every lone \r of the file is returned as \n.
read_text_from(raw, i) ==
    IF i > Len(raw) THEN <<>>
    ELSE IF raw[i] = CR /\ i < Len(raw) /\ raw[i + 1] = LF
         THEN <<LF>> \o read_text_from(raw, i + 2)
    ELSE IF raw[i] = CR THEN <<LF>> \o read_text_from(raw, i + 1)
    ELSE <<raw[i]>> \o read_text_from(raw, i + 1)

read_text(raw) == read_text_from(raw, 1)

RECURSIVE write_text_from(_, _, _)
\* What f.write(text) stores in a file opened with open(path, 'w'): every
\* \n written is stored as os.linesep.
write_text_from(text, i, linesep) ==
    IF i > Len(text) THEN <<>>
    ELSE IF text[i] = LF THEN linesep \o write_text_from(text, i + 1, linesep)
    ELSE <<text[i]>> \o write_text_from(text, i + 1, linesep)

write_text(text, linesep) == write_text_from(text, 1, linesep)

(* ------------------------------------------------------------------ *)
(* re.sub with ip_address_pattern.                                     *)
(* ------------------------------------------------------------------ *)

\* s[i], or a non-word character outside s.
CharAt(s, i) == IF i >= 1 /\ i <= Len(s) THEN s[i] ELSE SP

IsDigitAt(s, i) == CharAt(s, i) \in Digits

\* \b between positions i - 1 and i of s.
WordBoundary(s, i) ==
    (CharAt(s, i - 1) \in WordChars) # (CharAt(s, i) \in WordChars)

\* The lengths that (?:25[0-5]|2[0-4][0-9]|[01]?[0-9][0-9]?) can match at
\* position i, in the order in which the backtracking matcher tries them.
OctetLengths(s, i) ==
    (IF CharAt(s, i) = "2" /\ CharAt(s, i + 1) = "5"
        /\ CharAt(s, i + 2) \in {"0", "1", "2", "3", "4", "5"}
     THEN <<3>> ELSE <<>>)
    \o (IF CharAt(s, i) = "2" /\ CharAt(s, i + 1) \in {"0", "1", "2", "3", "4"}
           /\ IsDigitAt(s, i + 2)
        THEN <<3>> ELSE <<>>)
    \o (IF CharAt(s, i) \in {"0", "1"} /\ IsDigitAt(s, i + 1) /\ IsDigitAt(s, i + 2)
        THEN <<3>> ELSE <<>>)
    \o (IF CharAt(s, i) \in {"0", "1"} /\ IsDigitAt(s, i + 1)
        THEN <<2>> ELSE <<>>)
    \o (IF IsDigitAt(s, i) /\ IsDigitAt(s, i + 1) THEN <<2>> ELSE <<>>)
    \o (IF IsDigitAt(s, i) THEN <<1>> ELSE <<>>)

RECURSIVE ip_octets(_, _, _, _)
\* The position after a match of the rest of ip_address_pattern at i, where
\* `dotted` octets followed by a dot are still to be matched before the last
\* octet and the closing \b; 0 when there is none.  n is the next candidate
\* length of OctetLengths(s, i) to try.
ip_octets(s, i, dotted, n) ==
    LET lens == OctetLengths(s, i)
    IN  IF n > Len(lens) THEN 0
        ELSE LET e == i + lens[n]
                 rest == IF dotted > 0
                         THEN (IF CharAt(s, e) = "."
                               THEN ip_octets(s, e + 1, dotted - 1, 1)
                               ELSE 0)
                         ELSE (IF WordBoundary(s, e) THEN e ELSE 0)
             IN  IF rest # 0 THEN rest ELSE ip_octets(s, i, dotted, n + 1)

\* The position after the match of ip_address_pattern that starts at i, 0
\* when the pattern does not match there.
ip_match(s, i) ==
    IF WordBoundary(s, i) THEN ip_octets(s, i, 3, 1) ELSE 0

RECURSIVE sub_ip_from(_, _, _)
sub_ip_from(s, i, repl) ==
    IF i > Len(s) THEN <<>>
    ELSE LET e == ip_match(s, i)
         IN  IF e # 0 THEN repl \o sub_ip_from(s, e, repl)
             ELSE <<s[i]>> \o sub_ip_from(s, i + 1, repl)

\* re.sub(ip_address_pattern, repl, s): every match, leftmost first and not
\* overlapping, is replaced by the one string repl.
sub_ip_address(s, repl) == sub_ip_from(s, 1, repl)

(* ------------------------------------------------------------------ *)
(* re.sub with hostname_pattern.                                       *)
(* ------------------------------------------------------------------ *)

RECURSIVE host_run_end(_, _)
\* The position after the longest run of [a-zA-Z0-9.-] that starts at i.
host_run_end(s, i) ==
    IF CharAt(s, i) \in HostChars /\ i <= Len(s) THEN host_run_end(s, i + 1) ELSE i

\* The position after the match of \[?([a-zA-Z0-9.-]+)\]? that starts at i,
\* 0 when the pattern does not match there.
hostname_match(s, i) ==
    LET start == IF CharAt(s, i) = "[" /\ host_run_end(s, i + 1) > i + 1
                 THEN i + 1 ELSE i
        e == host_run_end(s, start)
    IN  IF e = start THEN 0
        ELSE IF CharAt(s, e) = "]" THEN e + 1 ELSE e

RECURSIVE sub_hostname_from(_, _, _)
sub_hostname_from(s, i, repl) ==
    IF i > Len(s) THEN <<>>
    ELSE LET e == hostname_match(s, i)
         IN  IF e # 0 THEN repl \o sub_hostname_from(s, e, repl)
             ELSE <<s[i]>> \o sub_hostname_from(s, i + 1, repl)

\* re.sub(hostname_pattern, repl, s)
sub_hostname(s, repl) == sub_hostname_from(s, 1, repl)

(* ------------------------------------------------------------------ *)
(* Input messages of the model.                                        *)
(* ------------------------------------------------------------------ *)

LineReceived ==
    <<"R", "e", "c", "e", "i", "v", "e", "d", ":", " ", "m", ".", "x", " ", "[", "1", ".", "2", ".", "3", ".", "4", "]">>
LineReceivedLower ==
    <<"r", "e", "c", "e", "i", "v", "e", "d", ":", " ", "2", "5", "6", ".", "1", ".", "1", ".", "1">>
LineXMailer ==
    <<"X", "-", "M", "a", "i", "l", "e", "r", ":", " ", "M", "1">>
LineXMailerLower ==
    <<"x", "-", "m", "a", "i", "l", "e", "r", ":", " ", "m", "2">>
LineMessageId ==
    <<"M", "e", "s", "s", "a", "g", "e", "-", "I", "D", ":", " ", "<", "i", "@", "h", ">">>
LineDate ==
    <<"D", "a", "t", "e", ":", " ", "d">>
LineFrom ==
    <<"F", "r", "o", "m", ":", " ", "a", "@", "b">>
LineTo ==
    <<"T", "O", ":", " ", "c", "@", "d">>
LineReplyTo ==
    <<"R", "e", "p", "l", "y", "-", "T", "o", ":", " ", "e", "@", "f">>
LineSubject ==
    <<"S", "u", "b", "j", "e", "c", "t", ":", " ", "H", "i">>
\* A folded (continuation) line: it begins with a space.
LineFolded ==
    <<" ", "b", "y", " ", "r", ".", "y">>
\* A malformed line: no colon.
LineMalformed ==
    <<"j", "u", "n", "k">>

HeaderLines ==
    {LineReceived, LineReceivedLower, LineXMailer, LineXMailerLower,
     LineMessageId, LineDate, LineFrom, LineTo, LineReplyTo, LineSubject,
     LineFolded, LineMalformed}

\* A body whose only line looks like a known header.
BodyHeaderLike ==
    <<"T", "o", ":", " ", "z">>
\* A body with a CRLF line ending, a blank line and a line that looks like a
\* known header.
BodyMixed ==
    <<"b", "\r", "\n", "c", "\n", "\n", "T", "o", ":", " ", "z">>

\* The layouts of an input file: the line ending of its header lines, whether
\* a blank line follows them, and the body after the blank line.
Layouts ==
    {[eol |-> <<LF>>, blank |-> TRUE, body |-> BodyHeaderLike],
     [eol |-> <<CR, LF>>, blank |-> TRUE, body |-> BodyMixed],
     [eol |-> <<LF>>, blank |-> FALSE, body |-> <<>>]}

\* The header lists of at most MaxHeaders physical lines.
HeaderLists == UNION {[1..n -> HeaderLines] : n \in 0..MaxHeaders}

\* An input file: the header lines, each ended by eol, then the blank line
\* and the body; without the blank line there is no boundary in the file.
InputFile(hdrs, layout) ==
    join(layout.eol, hdrs) \o layout.eol
    \o (IF layout.blank THEN layout.eol \o layout.body ELSE <<>>)

InputFiles == {InputFile(h, l) : h \in HeaderLists, l \in Layouts}

\* A file and its characters.
File(data) == [exists |-> TRUE, data |-> data]

\* What the output path holds before the run: an older file.
OldOutput ==
    <<"o", "l", "d">>
output_before == File(OldOutput)

\* os.linesep.  The platform modelled is POSIX; on Windows it is \r\n.
os_linesep == <<LF>>

(* ------------------------------------------------------------------ *)
(* Values of the Faker generator.                                      *)
(* ------------------------------------------------------------------ *)

FakeIPv4 ==
    <<"9", ".", "9", ".", "9", ".", "9">>
FakeDomain ==
    <<"f", ".", "o", "r", "g">>
FakeUuid4 ==
    <<"u", "-", "4">>
FakeDateTime ==
    <<"1", "9", "9", "4", "-", "0", "3", "-", "0", "5", " ", "1", "1", ":", "2", "2", ":", "3", "3">>
FakeName ==
    <<"A", "l", " ", "F", "a">>
FakeEmail ==
    <<"k", "@", "f", ".", "o", "r", "g">>

fake_ipv4 == {FakeIPv4}
fake_domain_name == {FakeDomain}
fake_uuid4 == {FakeUuid4}
fake_date_time == {FakeDateTime}
fake_name == {FakeName}
fake_email == {FakeEmail}

(* ------------------------------------------------------------------ *)
(* Literals of anonymize_email_headers.                                *)
(* ------------------------------------------------------------------ *)

BareMarker == <<LF, LF>>
CrlfMarker == <<CR, LF, CR, LF>>

prefix_received ==
    <<"r", "e", "c", "e", "i", "v", "e", "d", ":">>
prefix_x_mailer ==
    <<"x", "-", "m", "a", "i", "l", "e", "r", ":">>
prefix_message_id ==
    <<"m", "e", "s", "s", "a", "g", "e", "-", "i", "d", ":">>
prefix_date ==
    <<"d", "a", "t", "e", ":">>
prefix_from ==
    <<"f", "r", "o", "m", ":">>
prefix_to ==
    <<"t", "o", ":">>
prefix_reply_to ==
    <<"r", "e", "p", "l", "y", "-", "t", "o", ":">>

\* f"Message-ID: <{uuid}@{domain}>"
format_message_id(uuid, domain) ==
    <<"M", "e", "s", "s", "a", "g", "e", "-", "I", "D", ":", " ", "<">>
    \o uuid \o <<"@">> \o domain \o <<">">>

\* f"Date: {date_time}"
format_date(date_time) ==
    <<"D", "a", "t", "e", ":", " ">> \o date_time

\* f"{field}: {name} <{email}>" for From, To and Reply-To.
format_address(field, name, email) ==
    field \o <<":", " ">> \o name \o <<" ", "<">> \o email \o <<">">>

field_from == <<"F", "r", "o", "m">>
field_to == <<"T", "o">>
field_reply_to == <<"R", "e", "p", "l", "y", "-", "T", "o">>

\* is_received with the test made on the header as written: it misses a
\* Received header spelled in another letter case.
is_received_case_sensitive(header) ==
    startswith(header, <<"R", "e", "c", "e", "i", "v", "e", "d", ":">>)

\* The tests of the if/elif chain, each made on header.lower().
is_received(header) == startswith(lower(header), prefix_received)
is_x_mailer(header) == startswith(lower(header), prefix_x_mailer)
is_message_id(header) == startswith(lower(header), prefix_message_id)
is_date(header) == startswith(lower(header), prefix_date)
is_from(header) == startswith(lower(header), prefix_from)
is_to(header) == startswith(lower(header), prefix_to)
is_reply_to(header) == startswith(lower(header), prefix_reply_to)

\* The two substitutions applied to a Received header, the IPv4 pass first.
obfuscate(header, ipv4, domain) ==
    sub_hostname(sub_ip_address(header, ipv4), domain)

\* The separator the code settles on: the bare one whenever it occurs in the
\* text, else the CRLF one when that occurs, else none (the empty string).
select_marker(content) ==
    IF contains(content, BareMarker) THEN BareMarker
    ELSE IF contains(content, CrlfMarker) THEN CrlfMarker
    ELSE <<>>

(* ------------------------------------------------------------------ *)
(* State.                                                              *)
(* ------------------------------------------------------------------ *)

VARIABLES
    input_exists,        \* os.path.exists(args.input_file)
    raw_data,            \* the characters of the input file
    keep_x_mailer,       \* --keep-x-mailer
    obfuscate_received,  \* --obfuscate-received
    output_file,         \* the output path now
    pc,                  \* "main", "loop", "exit"
    header_end_marker,
    body_part,
    headers,             \* header_part.splitlines()
    idx,                 \* position of the for loop in headers
    anonymized_headers,
    log,                 \* the last message logged at ERROR or INFO level
    exit_status          \* -1 while the process runs

vars ==
    <<input_exists, raw_data, keep_x_mailer, obfuscate_received,
      output_file, pc, header_end_marker, body_part, headers,
      idx, anonymized_headers, log, exit_status>>

inputs == <<input_exists, raw_data, keep_x_mailer, obfuscate_received>>

split_state == <<header_end_marker, body_part, headers>>

Init ==
    /\ input_exists \in BOOLEAN
    /\ raw_data \in (IF input_exists THEN InputFiles ELSE {<<>>})
    /\ keep_x_mailer \in BOOLEAN
    /\ obfuscate_received \in BOOLEAN
    /\ output_file = output_before
    /\ pc = "main"
    /\ header_end_marker = <<>>
    /\ body_part = <<>>
    /\ headers = <<>>
    /\ idx = 1
    /\ anonymized_headers = <<>>
    /\ log = "none"
    /\ exit_status = -1

(* ------------------------------------------------------------------ *)
(* main.                                                               *)
(* ------------------------------------------------------------------ *)

\* The input path does not exist: an error is logged and sys.exit(1).
MainInputMissing ==
    /\ pc = "main"
    /\ ~input_exists
    /\ log' = "input_does_not_exist"
    /\ exit_status' = 1
    /\ pc' = "exit"
    /\ UNCHANGED <<inputs, output_file, split_state, idx, anonymized_headers>>

\* The input path exists and main calls anonymize_email_headers.
Called ==
    /\ pc = "main"
    /\ input_exists

\* anonymize_email_headers returns (None on every path, and it raises
\* nothing): the call is the last statement of main, so the interpreter
\* exits with status 0 after logging `message`.
ReturnToMain(message) ==
    /\ log' = message
    /\ exit_status' = 0
    /\ pc' = "exit"

(* ------------------------------------------------------------------ *)
(* anonymize_email_headers: reading and splitting.                     *)
(* ------------------------------------------------------------------ *)

\* f.read() of the input file opened in text mode.
email_content == read_text(raw_data)

\* Opening, detecting or decoding the input raises: the except clauses log
\* the error and the function returns.
ReadFails ==
    /\ Called
    /\ ReturnToMain("exception")
    /\ UNCHANGED <<inputs, output_file, split_state, idx, anonymized_headers>>

\* The text holds neither separator: an error is logged and the function
\* returns.
NoSeparator ==
    /\ Called
    /\ select_marker(email_content) = <<>>
    /\ ReturnToMain("no_separator")
    /\ UNCHANGED <<inputs, output_file, split_state, idx, anonymized_headers>>

\* The text is read and split at the first occurrence of the separator.
ReadAndSplit ==
    /\ Called
    /\ LET marker == select_marker(email_content)
           parts == split_once(email_content, marker)
       IN  /\ marker # <<>>
           /\ header_end_marker' = marker
           /\ headers' = splitlines(parts[1])
           /\ body_part' = parts[2]
    /\ idx' = 1
    /\ anonymized_headers' = <<>>
    /\ pc' = "loop"
    /\ UNCHANGED <<inputs, output_file, log, exit_status>>

(* ------------------------------------------------------------------ *)
(* anonymize_email_headers: the loop over the header lines.            *)
(* ------------------------------------------------------------------ *)

\* The branch of the if/elif chain that a header line takes: the first test
\* that holds.
branch(header) ==
    IF is_received(header) THEN "received"
    ELSE IF is_x_mailer(header) THEN "x-mailer"
    ELSE IF is_message_id(header) THEN "message-id"
    ELSE IF is_date(header) THEN "date"
    ELSE IF is_from(header) THEN "from"
    ELSE IF is_to(header) THEN "to"
    ELSE IF is_reply_to(header) THEN "reply-to"
    ELSE "other"

\* The loop is at a header line that takes branch b.
AtHeader(b) ==
    /\ pc = "loop"
    /\ idx <= Len(headers)
    /\ branch(headers[idx]) = b

\* AppendAndNext with the line put at the front of the list.
AppendAndNext_at_front(line) ==
    /\ anonymized_headers' = <<line>> \o anonymized_headers
    /\ idx' = idx + 1
    /\ UNCHANGED <<inputs, output_file, split_state, pc, log, exit_status>>

\* anonymized_headers.append(line), and on to the next header.
AppendAndNext(line) ==
    /\ anonymized_headers' = Append(anonymized_headers, line)
    /\ idx' = idx + 1
    /\ UNCHANGED <<inputs, output_file, split_state, pc, log, exit_status>>

\* continue: nothing is appended.
SkipAndNext ==
    /\ idx' = idx + 1
    /\ UNCHANGED <<inputs, output_file, split_state, pc, anonymized_headers,
                   log, exit_status>>

ObfuscateReceived ==
    /\ AtHeader("received")
    /\ obfuscate_received
    /\ \E ipv4 \in fake_ipv4, domain \in fake_domain_name :
           AppendAndNext(obfuscate(headers[idx], ipv4, domain))

RemoveReceived ==
    /\ AtHeader("received")
    /\ ~obfuscate_received
    /\ SkipAndNext

\* KeepXMailer without the test of keep_x_mailer.
KeepXMailer_whatever_the_flag ==
    /\ AtHeader("x-mailer")
    /\ AppendAndNext(headers[idx])

KeepXMailer ==
    /\ AtHeader("x-mailer")
    /\ keep_x_mailer
    /\ AppendAndNext(headers[idx])

RemoveXMailer ==
    /\ AtHeader("x-mailer")
    /\ ~keep_x_mailer
    /\ SkipAndNext

ReplaceMessageID ==
    /\ AtHeader("message-id")
    /\ \E uuid \in fake_uuid4, domain \in fake_domain_name :
           AppendAndNext(format_message_id(uuid, domain))

ReplaceDate ==
    /\ AtHeader("date")
    /\ \E date_time \in fake_date_time :
           AppendAndNext(format_date(date_time))

ReplaceFrom ==
    /\ AtHeader("from")
    /\ \E name \in fake_name, email \in fake_email :
           AppendAndNext(format_address(field_from, name, email))

ReplaceTo ==
    /\ AtHeader("to")
    /\ \E name \in fake_name, email \in fake_email :
           AppendAndNext(format_address(field_to, name, email))

ReplaceReplyTo ==
    /\ AtHeader("reply-to")
    /\ \E name \in fake_name, email \in fake_email :
           AppendAndNext(format_address(field_reply_to, name, email))

KeepOther ==
    /\ AtHeader("other")
    /\ AppendAndNext(headers[idx])

(* ------------------------------------------------------------------ *)
(* anonymize_email_headers: assembling and writing.                    *)
(* ------------------------------------------------------------------ *)

\* '\n'.join(anonymized_headers) + header_end_marker + body_part
anonymized_email ==
    join(<<LF>>, anonymized_headers) \o header_end_marker \o body_part

LoopDone ==
    /\ pc = "loop"
    /\ idx > Len(headers)

\* The output file is opened, written and closed; the success is logged.
WriteOutput ==
    /\ LoopDone
    /\ output_file' = File(write_text(anonymized_email, os_linesep))
    /\ ReturnToMain("saved")
    /\ UNCHANGED <<inputs, split_state, idx, anonymized_headers>>

\* open(output_file, 'w') raises (no such directory, no permission): the
\* path is left as it was, the error is logged.
OpenOutputFails ==
    /\ LoopDone
    /\ ReturnToMain("exception")
    /\ UNCHANGED <<inputs, output_file, split_state, idx, anonymized_headers>>

\* open(output_file, 'w') has created or truncated the file and f.write, or
\* the flush at the end of the with block, raises (encoding error, device
\* full): the file is left empty, the error is logged.
WriteFails ==
    /\ LoopDone
    /\ output_file' = File(<<>>)
    /\ ReturnToMain("exception")
    /\ UNCHANGED <<inputs, split_state, idx, anonymized_headers>>

(* ------------------------------------------------------------------ *)
(* Specification.                                                      *)
(* ------------------------------------------------------------------ *)

Next ==
    \/ MainInputMissing
    \/ NoSeparator
    \/ ReadAndSplit
    \/ ReadFails
    \/ ObfuscateReceived
    \/ RemoveReceived
    \/ KeepXMailer
    \/ RemoveXMailer
    \/ ReplaceMessageID
    \/ ReplaceDate
    \/ ReplaceFrom
    \/ ReplaceTo
    \/ ReplaceReplyTo
    \/ KeepOther
    \/ WriteOutput
    \/ OpenOutputFails
    \/ WriteFails

Spec == Init /\ [][Next]_vars

(* ------------------------------------------------------------------ *)
(* Vocabulary of the properties.                                       *)
(* ------------------------------------------------------------------ *)

\* The run has ended and the anonymized message was saved.
Saved == pc = "exit" /\ log = "saved"

\* The header lines the loop has already passed.
processed == SubSeq(headers, 1, idx - 1)

\* The text s ends with suffix.
endswith(s, suffix) ==
    /\ Len(s) >= Len(suffix)
    /\ SubSeq(s, Len(s) - Len(suffix) + 1, Len(s)) = suffix

\* The number of elements of seq that satisfy P.
Count(seq, P(_)) == Cardinality({i \in 1..Len(seq) : P(seq[i])})

\* The position of the first colon of a line, 0 when it has none.
first_colon(line) ==
    LET colons == {i \in 1..Len(line) : line[i] = ":"}
    IN  IF colons = {} THEN 0
        ELSE CHOOSE i \in colons : \A j \in colons : i <= j

\* A line has a field name when it holds a colon: the name is what stands
\* before the first colon.
has_field_name(line) == first_colon(line) # 0
field_name(line) == SubSeq(line, 1, first_colon(line) - 1)

\* The line's field name is `name`, letter case aside.
named(line, name) ==
    LET c == first_colon(line)
    IN  c # 0 /\ lower(SubSeq(line, 1, c - 1)) = name

\* The line's field name is one of `names`, letter case aside.
named_among(line, names) ==
    LET c == first_colon(line)
    IN  c # 0 /\ lower(SubSeq(line, 1, c - 1)) \in names

name_received == <<"r", "e", "c", "e", "i", "v", "e", "d">>
name_x_mailer == <<"x", "-", "m", "a", "i", "l", "e", "r">>
name_message_id == <<"m", "e", "s", "s", "a", "g", "e", "-", "i", "d">>
name_date == <<"d", "a", "t", "e">>
name_from == <<"f", "r", "o", "m">>
name_to == <<"t", "o">>
name_reply_to == <<"r", "e", "p", "l", "y", "-", "t", "o">>

replaced_names ==
    {name_message_id, name_date, name_from, name_to, name_reply_to}
known_names == {name_received, name_x_mailer} \cup replaced_names

received_line(line) == named(line, name_received)
x_mailer_line(line) == named(line, name_x_mailer)
replaced_line(line) == named_among(line, replaced_names)

\* The line's field name is not in the table (a line without a colon has no
\* field name at all).
unrecognized(line) == ~named_among(line, known_names)

\* The line begins with "Received:", spelled so.
begins_with_Received(line) ==
    startswith(line, <<"R", "e", "c", "e", "i", "v", "e", "d", ":">>)

TAB == "\t"

\* A physical line that begins with a space or a tab.
continuation(line) == Len(line) > 0 /\ line[1] \in {SP, TAB}

\* The policy drops the header line under the flags of the run.
dropped(line) ==
    \/ ~obfuscate_received /\ received_line(line)
    \/ ~keep_x_mailer /\ x_mailer_line(line)

survives(line) == ~dropped(line)

\* The header lines of the output file: its lines before the first blank
\* line, whatever the line ending.
written_headers ==
    LET text == read_text(output_file.data)
    IN  IF contains(text, BareMarker)
        THEN splitlines(split_once(text, BareMarker)[1])
        ELSE splitlines(text)

\* The separator that occurs first in the input file, taking the file's
\* own line endings: the CRLF one when it occurs before any bare one.
raw_marker ==
    LET b == find(raw_data, BareMarker)
        c == find(raw_data, CrlfMarker)
    IN  IF c # 0 /\ (b = 0 \/ c < b) THEN CrlfMarker
        ELSE IF b # 0 THEN BareMarker
        ELSE <<>>

\* The body as it stands in the input file.
raw_body == split_once(raw_data, raw_marker)[2]

(* ------------------------------------------------------------------ *)
(* C1.                                                                 *)
(* ------------------------------------------------------------------ *)

\* C1: with obfuscate_received set, the saved output has as many Received
\* header lines as the input has: every obfuscated Received line still
\* begins with its "Received:" after the IPv4 pass and the hostname pass
\* (the letter case of the name is not held against the output).
C1_ObfuscatedReceivedKeepsPrefix ==
    (Saved /\ obfuscate_received) =>
        Count(written_headers, received_line) = Count(headers, received_line)

(* ------------------------------------------------------------------ *)
(* C2.                                                                 *)
(* ------------------------------------------------------------------ *)

\* C2: without obfuscate_received no header line of the output is a
\* Received line in any letter casing: none is ever appended to the
\* anonymized headers, which are the header lines of the file that is saved.
C2_NoReceivedLineByDefault ==
    ~obfuscate_received =>
        \A j \in 1..Len(anonymized_headers) :
            ~received_line(anonymized_headers[j])

\* A saved run without obfuscate_received whose input had a Received header
\* in another letter casing, next to a header that was kept.
C2_Witness ==
    /\ Saved
    /\ ~obfuscate_received
    /\ \E i \in 1..Len(headers) :
           received_line(headers[i]) /\ ~begins_with_Received(headers[i])
    /\ Len(anonymized_headers) >= 1

(* ------------------------------------------------------------------ *)
(* C3.                                                                 *)
(* ------------------------------------------------------------------ *)

\* C3: without keep_x_mailer no output header line is an X-Mailer line;
\* with it the X-Mailer lines of the output are exactly those of the input,
\* unchanged and in their order; this under either value of
\* obfuscate_received.
C3_XMailerPolicy ==
    /\ ~keep_x_mailer =>
           Count(anonymized_headers, x_mailer_line) = 0
    /\ keep_x_mailer =>
           SelectSeq(anonymized_headers, x_mailer_line)
               = SelectSeq(processed, x_mailer_line)

\* A saved run with both flags set whose input had two different X-Mailer
\* lines.
C3_Witness ==
    /\ Saved
    /\ keep_x_mailer
    /\ obfuscate_received
    /\ \E i, j \in 1..Len(headers) :
           /\ i < j
           /\ x_mailer_line(headers[i])
           /\ x_mailer_line(headers[j])
           /\ headers[i] # headers[j]

(* ------------------------------------------------------------------ *)
(* C4.                                                                 *)
(* ------------------------------------------------------------------ *)

\* The header lines passed so far that the policy does not drop, in the
\* order of the input.
survivors == SelectSeq(processed, survives)

\* C4: every header line that is not dropped has exactly one line of the
\* output, in the order of the input; the line of a header with an
\* unrecognized field name, a malformed line included, is the header's raw
\* line unchanged, and the line of a replaced header carries the same field
\* name.  Nothing else is in the output: no line is duplicated, merged or
\* reordered, and the header lines of the saved file are these lines.
C4_UnrecognizedKeptInOrder ==
    /\ Len(anonymized_headers) = Len(survivors)
    /\ \A j \in 1..Len(survivors) :
           LET header == survivors[j]
               out == anonymized_headers[j]
           IN  /\ unrecognized(header) => out = header
               /\ replaced_line(header) =>
                      /\ has_field_name(out)
                      /\ lower(field_name(out)) = lower(field_name(header))
    /\ Saved => written_headers = anonymized_headers

\* A saved run whose input had a malformed line and then another
\* unrecognized header.
C4_Witness ==
    /\ Saved
    /\ Len(headers) >= 2
    /\ ~has_field_name(headers[1])
    /\ ~continuation(headers[1])
    /\ unrecognized(headers[2])
    /\ headers[1] # headers[2]

(* ------------------------------------------------------------------ *)
(* C5.                                                                 *)
(* ------------------------------------------------------------------ *)

\* C5: the saved output ends with the boundary marker chosen for the
\* message followed by the body exactly as it stands in the input file,
\* under every flag combination.
C5_BoundaryAndBodyVerbatim ==
    Saved => endswith(output_file.data, header_end_marker \o raw_body)

(* ------------------------------------------------------------------ *)
(* C6.                                                                 *)
(* ------------------------------------------------------------------ *)

\* C6: a run that ends without having saved the anonymized message leaves
\* the output path as it was before the run, neither created nor
\* overwritten.
C6_NoPartialOutput ==
    (pc = "exit" /\ log # "saved") => output_file = output_before

(* ------------------------------------------------------------------ *)
(* C7.                                                                 *)
(* ------------------------------------------------------------------ *)

\* C7: the command exits with a non-zero status when the input path does
\* not exist or the boundary cannot be found, and with status zero only
\* when the anonymized message was saved.
C7_ExitStatus ==
    pc = "exit" =>
        /\ log \in {"input_does_not_exist", "no_separator"} => exit_status # 0
        /\ exit_status = 0 => log = "saved"

(* ------------------------------------------------------------------ *)
(* C8.                                                                 *)
(* ------------------------------------------------------------------ *)

\* C8: when every header of the message has an unrecognized field name, the
\* saved output equals the input file: header block, boundary and body,
\* also when the header lines end with CRLF.
C8_IdentityOnUnrecognizedHeaders ==
    (Saved /\ \A i \in 1..Len(headers) : unrecognized(headers[i]))
        => output_file.data = raw_data

(* ------------------------------------------------------------------ *)
(* C9.                                                                 *)
(* ------------------------------------------------------------------ *)

\* The header line that the continuation line at position i belongs to: the
\* nearest line before it that is no continuation, 0 when there is none.
owner(i) ==
    IF \E j \in 1..(i - 1) : ~continuation(headers[j])
    THEN CHOOSE j \in 1..(i - 1) :
             /\ ~continuation(headers[j])
             /\ \A k \in (j + 1)..(i - 1) : continuation(headers[k])
    ELSE 0

\* The continuation line at position i belongs to a header that the policy
\* drops or replaces.
folded_away(i) ==
    /\ continuation(headers[i])
    /\ owner(i) # 0
    /\ (dropped(headers[owner(i)]) \/ replaced_line(headers[owner(i)]))

\* Every continuation line of the header block has a header before it.
well_formed_block == headers = <<>> \/ ~continuation(headers[1])

\* C9: a continuation line is part of the record of its header and shares
\* its rewrite decision.  For a header block in which every continuation
\* line follows a header: the continuation lines of the output are those of
\* the headers that are neither dropped nor replaced, and no continuation
\* line of a dropped or replaced header is in the output.
C9_ContinuationFollowsItsHeader ==
    well_formed_block =>
        Count(anonymized_headers, continuation)
            = Cardinality({i \in 1..Len(processed) :
                              continuation(headers[i]) /\ ~folded_away(i)})

(* ------------------------------------------------------------------ *)
(* C10.                                                                *)
(* ------------------------------------------------------------------ *)

\* C10: the split is made at the first boundary of the input file in the
\* file's own line-ending convention: when the file holds the CRLF double
\* line break that variant is the marker chosen, and the lines after the
\* first boundary are the body.
C10_MarkerOfTheMessage ==
    pc = "loop" =>
        /\ contains(raw_data, CrlfMarker) => header_end_marker = CrlfMarker
        /\ splitlines(body_part) = splitlines(raw_body)

====
